---- MODULE Spec2Model ----
(***************************************************************************)
(* Model of the NYRA universal search / knowledge base                     *)
(* (src/mcp-ecosystem/knowledge-base/search-engine.py).                    *)
(*                                                                         *)
(* The persisted state is the ChromaDB collection (vec), the SQLite FTS5   *)
(* table knowledge_fts (fts) and the SQLite table knowledge_metadata       *)
(* (meta).  Both stores live on disk under db_path, so a refresh and a     *)
(* search started from two invocations of the CLI share them.  A refresh   *)
(* is one step per awaited collector call and one step per store commit;   *)
(* a search is one step, which may fall between any two of them.           *)
(*                                                                         *)
(* Behaviour of the two libraries the code calls, as the model takes it:   *)
(*  - chromadb Collection.add (PersistentClient, chromadb >= 0.4) raises   *)
(*    DuplicateIDError when the batch itself repeats an id, and silently   *)
(*    ignores a record whose id the collection already holds;              *)
(*  - an SQLite FTS5 virtual table has no key but its rowid, so INSERT OR  *)
(*    REPLACE without a rowid always appends a row; knowledge_metadata has *)
(*    id as PRIMARY KEY, so there INSERT OR REPLACE replaces the row.      *)
(***************************************************************************)
EXTENDS Integers, Sequences, FiniteSets, TLC

(* ------------------------------ bounds -------------------------------- *)
\* refreshes started in one behaviour
MaxRefresh == 2
\* raw records the collaborators hand over during one refresh, all sources together
MaxRecords == 2

(* --------------------------- value universe --------------------------- *)
Absent == "<absent>"
NoEntry == [stored |-> FALSE]
NoSummary == [status |-> "<none>"]
None == "<None>"
EmptyDict == "{}"
NoArgs == [query |-> None]
NoResponse == [status |-> "<none>"]
NoEnv == [semantic_ok |-> None]
NoStats == [status |-> "<none>"]

Sources == <<"github_mcp", "filesystem_mcp", "infisical_mcp", "docker_mcp">>

\* The raw records of the model: one kind for each source (a GitHub repository,
\* a file, an Infisical project, a Docker container), each with its natural
\* key, the field its title is built from and the field its content is built
\* from.  Issues, commits and images are built the same way, inside the same
\* try, and are left out of the responses.  The caps ([:10], [:100]) and the
\* truncation at 10000 characters lie above the sizes drawn here.
RawKeys(src) == IF src = "github_mcp" THEN {1, 2} ELSE {1}
RawTitles(src) == {"t", Absent}
\* a GitHub description may change or be missing; the other text bodies are fixed
RawContents(src) == IF src = "github_mcp" THEN {"a", "b", Absent} ELSE {"a"}

RawRecords(src) ==
  [key : RawKeys(src), title : RawTitles(src), content : RawContents(src)]

\* sequences over S of length at most n
RECURSIVE SeqsUpTo(_, _)
SeqsUpTo(S, n) ==
  IF n = 0 THEN {<<>>}
  ELSE LET shorter == SeqsUpTo(S, n - 1)
       IN  shorter \cup {Append(s, x) : s \in {t \in shorter : Len(t) = n - 1}, x \in S}

\* what one collaborator answers with at most n records: ok = FALSE is a failed
\* or timed-out call, which carries no records
ResponseTable ==
  [src \in {Sources[i] : i \in 1..Len(Sources)}, n \in 0..MaxRecords |->
     {[ok |-> TRUE, records |-> rs] : rs \in SeqsUpTo(RawRecords(src), n)}
       \cup {[ok |-> FALSE, records |-> <<>>]}]

RawResponses(src, n) == ResponseTable[src, n]

(* --------------------------- KnowledgeItem ---------------------------- *)
\* the values of the enumeration ContentType
ContentTypeEnum ==
  {"code", "documentation", "config", "secret_metadata", "repository", "issue",
   "commit", "file", "note"}

\* the members the collectors name: ContentType.REPOSITORY, ContentType.CODE,
\* ContentType.SECRET_METADATA, ContentType.CONFIG
REPOSITORY == <<"ContentType", "repository">>
CODE == <<"ContentType", "code">>
SECRET_METADATA == <<"ContentType", "secret_metadata">>
CONFIG == <<"ContentType", "config">>

\* a lookup that answers with the member NOTE whatever the value
ContentTypeAlwaysNote(value) == <<"ContentType", "note">>

\* ContentType(value): the member of the enumeration with this value (a
\* ValueError for any other value, which the callers catch or never pass)
ContentType(value) == <<"ContentType", value>>

\* member.value
EnumValue(member) == member[2]

\* KnowledgeItem(...) followed by __post_init__: created_at is the time of
\* construction and updated_at is created_at
KnowledgeItem(id, title, content, content_type, source, metadata, tags, now) ==
  [id |-> id, title |-> title, content |-> content, content_type |-> content_type,
   source |-> source, metadata |-> metadata, tags |-> tags,
   created_at |-> now, updated_at |-> now]

\* dict.get(key, "") on a text field
GetOrEmpty(v) == IF v = Absent THEN "" ELSE v

\* does building the item from this record raise KeyError
RaisesKeyError(src, r) ==
  CASE src = "github_mcp" -> r.title = Absent
    [] src = "filesystem_mcp" -> r.title = Absent
    [] src = "infisical_mcp" -> r.title = Absent
    [] OTHER -> r.title = Absent \/ r.content = Absent

\* the item a collector builds from a record that raises nothing
Normalize(src, r, now) ==
  CASE src = "github_mcp" ->
         KnowledgeItem(<<"github_repo", r.key>>, r.title,
                       GetOrEmpty(r.content) \o "\n" \o "", REPOSITORY,
                       src, "m", <<"topic">>, now)
    [] src = "filesystem_mcp" ->
         KnowledgeItem(<<"filesystem", r.key>>, r.title,
                       GetOrEmpty(r.content), CODE,
                       src, "m", <<"py">>, now)
    [] src = "infisical_mcp" ->
         KnowledgeItem(<<"infisical_project", r.key>>, "Infisical Project: " \o r.title,
                       "Project: " \o r.title \o "\nEnvironments: " \o GetOrEmpty(r.content),
                       SECRET_METADATA, src, "m", <<"secrets", "infisical">>, now)
    [] OTHER ->
         KnowledgeItem(<<"docker_container", r.key>>, "Container: " \o r.title,
                       "Image: " \o r.content, CONFIG,
                       src, "m", <<"docker", "container">>, now)

\* a collector whose loop sits directly in the outer try: the first KeyError
\* ends the loop and the items built so far are returned
RECURSIVE CollectAbort(_, _, _)
CollectAbort(src, records, now) ==
  IF records = <<>> \/ RaisesKeyError(src, Head(records)) THEN <<>>
  ELSE <<Normalize(src, Head(records), now)>>
         \o CollectAbort(src, Tail(records), now)

\* the filesystem collector: each file has its own try, a KeyError skips the file
RECURSIVE CollectSkip(_, _, _)
CollectSkip(src, records, now) ==
  IF records = <<>> THEN <<>>
  ELSE IF RaisesKeyError(src, Head(records))
       THEN CollectSkip(src, Tail(records), now)
       ELSE <<Normalize(src, Head(records), now)>>
              \o CollectSkip(src, Tail(records), now)

\* _call_mcp_server answers {} for a failed call, so the loop sees no records
Collected(src, resp, now) ==
  LET records == IF resp.ok THEN resp.records ELSE <<>>
  IN  IF src = "filesystem_mcp" THEN CollectSkip(src, records, now)
      ELSE CollectAbort(src, records, now)

(* ------------------------------- state -------------------------------- *)
VARIABLES
  vec,            \* the ChromaDB collection: id -> record, or NoEntry
  fts,            \* the rows of knowledge_fts, in rowid order
  meta,           \* knowledge_metadata: id -> row, or NoEntry
  clock,          \* the wall clock (datetime.now / time.time); it is read as one
                  \* value through a refresh and is later in every later refresh
  rpc,            \* where refresh_knowledge_base stands
  items,          \* the items of the running (or last) refresh
  start_time,     \* start_time of the running (or last) refresh
  summary,        \* what the last refresh returned, NoSummary while none has
  refreshes,      \* refreshes started
  seen,           \* raw records received in the running refresh
  failure,        \* history: the step of add_items that raised in the last refresh
  collectorFailed, \* history: some source's call failed in the last refresh
  expected,       \* history: ids of the well-formed records received while collecting
  embedAttempts,  \* history: calls of model.encode in the last add_items
  inserted,       \* history: ids the last collection.add inserted
  anyFailed,      \* history: some refresh so far returned an error
  sargs,          \* the arguments of the search the last step ran, NoArgs if it ran none
  results,        \* what that search returned
  response,       \* what search_knowledge_base made of it, NoResponse if none ran
  env,            \* history: what the indexes did in that search (NoEnv if none ran)
  supplied,       \* history: id -> the content type, source and metadata of the items
                  \* of that id which add_items handed to a collection.add that
                  \* went through
  stats           \* what the last get_statistics returned (NoStats if the last step
                  \* was none)

vars == <<vec, fts, meta, clock, rpc, items, start_time, summary, refreshes,
          seen, failure, collectorFailed, expected, embedAttempts, inserted,
          anyFailed, sargs, results, response, env, supplied, stats>>

Ids ==
  {<<"github_repo", k>> : k \in RawKeys("github_mcp")}
    \cup {<<"filesystem", k>> : k \in RawKeys("filesystem_mcp")}
    \cup {<<"infisical_project", k>> : k \in RawKeys("infisical_mcp")}
    \cup {<<"docker_container", k>> : k \in RawKeys("docker_mcp")}

Init ==
  /\ vec = [i \in Ids |-> NoEntry]
  /\ fts = <<>>
  /\ meta = [i \in Ids |-> NoEntry]
  /\ clock = 0
  /\ rpc = "idle"
  /\ items = <<>>
  /\ start_time = 0
  /\ summary = NoSummary
  /\ refreshes = 0
  /\ seen = 0
  /\ failure = "none"
  /\ collectorFailed = FALSE
  /\ expected = <<>>
  /\ embedAttempts = 0
  /\ inserted = {}
  /\ anyFailed = FALSE
  /\ sargs = NoArgs
  /\ results = <<>>
  /\ response = NoResponse
  /\ env = NoEnv
  /\ supplied = [i \in Ids |-> {}]
  /\ stats = NoStats

stores == <<vec, fts, meta>>
refreshVars == <<rpc, items, start_time, summary, refreshes, seen, failure,
                 collectorFailed, expected, embedAttempts, inserted, anyFailed, clock,
                 supplied>>
searchVars == <<sargs, results, response, env>>
\* a step of the refresh: the last step ran no search and no statistics
NoSearch ==
  /\ sargs' = NoArgs
  /\ results' = <<>>
  /\ response' = NoResponse
  /\ env' = NoEnv
  /\ stats' = NoStats

(* ------------------------ stored representations ---------------------- *)
\* datetime.isoformat()
IsoFormat(t) == <<"iso", t>>
\* json.dumps(item.metadata)
JsonDumps(m) == <<"json", m>>
\* ",".join(item.tags)
RECURSIVE JoinTags(_)
JoinTags(tags) ==
  IF tags = <<>> THEN ""
  ELSE IF Len(tags) = 1 THEN tags[1]
  ELSE tags[1] \o "," \o JoinTags(Tail(tags))

\* the metadatas / documents entry add_items prepares for ChromaDB
VecRecord(item) ==
  [title |-> item.title, content_type |-> EnumValue(item.content_type),
   source |-> item.source,
   created_at |-> IsoFormat(item.created_at), tags |-> JoinTags(item.tags),
   document |-> item.content]

\* the row add_items inserts into knowledge_fts
FtsRow(item) ==
  [id |-> item.id, title |-> item.title, content |-> item.content,
   content_type |-> EnumValue(item.content_type), source |-> item.source,
   tags |-> JoinTags(item.tags), metadata |-> JsonDumps(item.metadata)]

\* the row add_items inserts into knowledge_metadata
MetaRow(item) ==
  [title |-> item.title, content_type |-> EnumValue(item.content_type),
   source |-> item.source,
   created_at |-> IsoFormat(item.created_at), updated_at |-> IsoFormat(item.updated_at),
   metadata |-> JsonDumps(item.metadata), tags |-> JoinTags(item.tags)]

ItemIds(its) == {its[i].id : i \in 1..Len(its)}
HasDuplicateIds(its) == \E i, j \in 1..Len(its) : i < j /\ its[i].id = its[j].id

\* collection.add: a record whose id is already stored is ignored
\* a collection.add that stores nothing
CollectionAddNothing(store, its) == store

CollectionAdd(store, its) ==
  [i \in Ids |->
     IF store[i] = NoEntry /\ i \in ItemIds(its)
     THEN VecRecord(its[CHOOSE k \in 1..Len(its) : its[k].id = i])
     ELSE store[i]]

\* INSERT OR REPLACE INTO knowledge_fts, item after item: FTS5 appends
RECURSIVE FtsInsert(_, _)
FtsInsert(rows, its) ==
  IF its = <<>> THEN rows
  ELSE FtsInsert(Append(rows, FtsRow(Head(its))), Tail(its))

\* a write that leaves in knowledge_metadata the rows of the batch alone
MetaInsertBatchOnly(table, its) ==
  [i \in Ids |->
     IF i \in ItemIds(its)
     THEN MetaRow(its[CHOOSE k \in 1..Len(its) : its[k].id = i])
     ELSE NoEntry]

\* INSERT OR REPLACE INTO knowledge_metadata, item after item: the last wins
RECURSIVE MetaInsert(_, _)
MetaInsert(table, its) ==
  IF its = <<>> THEN table
  ELSE MetaInsert([table EXCEPT ![Head(its).id] = MetaRow(Head(its))], Tail(its))

(* ----------------------- refresh_knowledge_base ----------------------- *)
SuccessSummary(n, now) ==
  [status |-> "success", items_collected |-> n,
   execution_time |-> now - start_time, timestamp |-> IsoFormat(now)]

ErrorSummary(what, now) ==
  [status |-> "error", error |-> what,
   execution_time |-> now - start_time, timestamp |-> IsoFormat(now)]

RefreshStart ==
  /\ rpc = "idle"
  /\ refreshes < MaxRefresh
  /\ rpc' = "github_mcp"
  /\ refreshes' = refreshes + 1
  /\ clock' = clock + 1
  /\ start_time' = clock + 1
  /\ NoSearch
  /\ UNCHANGED supplied
  /\ UNCHANGED <<stores, items, summary, seen, failure, collectorFailed, anyFailed,
                 expected, embedAttempts, inserted>>

WellFormed(r) == r.title # Absent /\ r.content # Absent

RECURSIVE WellFormedIds(_, _)
WellFormedIds(src, records) ==
  IF records = <<>> THEN <<>>
  ELSE (IF WellFormed(Head(records))
        THEN <<Normalize(src, Head(records), 0).id>> ELSE <<>>)
         \o WellFormedIds(src, Tail(records))

\* one awaited collector of collect_all_data
Collect(src, next) ==
  /\ rpc = src
  /\ \E resp \in RawResponses(src, MaxRecords - seen) :
       /\ items' = items \o Collected(src, resp, clock)
       /\ seen' = IF next = "collected" THEN 0 ELSE seen + Len(resp.records)
       /\ collectorFailed' = (collectorFailed \/ ~resp.ok)
       /\ expected' = expected \o WellFormedIds(src, resp.records)
  /\ rpc' = next
  /\ NoSearch
  /\ UNCHANGED supplied
  /\ UNCHANGED <<stores, clock, start_time, summary, refreshes, failure,
                 embedAttempts, anyFailed, inserted>>

CollectGithub == Collect("github_mcp", "filesystem_mcp")
CollectFilesystem == Collect("filesystem_mcp", "infisical_mcp")
CollectInfisical == Collect("infisical_mcp", "docker_mcp")
CollectDocker == Collect("docker_mcp", "collected")

\* the return statement of refresh_knowledge_base, or its except branch
Return(s) ==
  /\ summary' = s
  /\ rpc' = "returned"
  /\ anyFailed' = (anyFailed \/ s.status = "error")
  /\ UNCHANGED clock

\* if items: is false; add_items is not called
RefreshNothing ==
  /\ rpc = "collected"
  /\ items = <<>>
  /\ Return(SuccessSummary(0, clock))
  /\ expected' = <<>>
  /\ NoSearch
  /\ UNCHANGED supplied
  /\ UNCHANGED <<stores, items, start_time, refreshes, seen, failure, collectorFailed,
                 embedAttempts, inserted>>

\* add_items: self.model.encode(contents), which may raise
AddItemsEncode ==
  /\ rpc = "collected"
  /\ items # <<>>
  /\ embedAttempts' = embedAttempts + 1
  /\ expected' = <<>>
  /\ \/ /\ rpc' = "encoded"
        /\ UNCHANGED <<summary, clock, failure, anyFailed>>
     \/ /\ failure' = "embed"
        /\ Return(ErrorSummary("encode", clock))
  /\ NoSearch
  /\ UNCHANGED supplied
  /\ UNCHANGED <<stores, items, start_time, refreshes, seen, collectorFailed, inserted>>

\* what add_items was given of an item
SuppliedFields(item) ==
  [content_type |-> item.content_type, source |-> item.source, metadata |-> item.metadata]

Supplied(table, its) ==
  [i \in Ids |-> table[i] \cup {SuppliedFields(its[k]) : k \in {j \in 1..Len(its) : its[j].id = i}}]

\* add_items: self.collection.add(...), which raises on a repeated id in the
\* batch and may raise for a reason of its own
AddItemsChroma ==
  /\ rpc = "encoded"
  /\ \/ /\ ~HasDuplicateIds(items)
        /\ vec' = CollectionAdd(vec, items)
        /\ inserted' = {i \in ItemIds(items) : vec[i] = NoEntry}
        /\ supplied' = Supplied(supplied, items)
        /\ rpc' = "chroma_added"
        /\ UNCHANGED <<summary, clock, failure, anyFailed>>
     \/ /\ failure' = "vector"
        /\ Return(ErrorSummary("add", clock))
        /\ UNCHANGED <<vec, inserted, supplied>>
  /\ NoSearch
  /\ UNCHANGED <<fts, meta, items, start_time, refreshes, seen, collectorFailed,
                 expected, embedAttempts>>

\* add_items: the SQLite transaction (both tables, one commit), then the
\* return of refresh_knowledge_base; a failed transaction is rolled back
AddItemsSqlite ==
  /\ rpc = "chroma_added"
  /\ \/ /\ fts' = FtsInsert(fts, items)
        /\ meta' = MetaInsert(meta, items)
        /\ Return(SuccessSummary(Len(items), clock))
        /\ UNCHANGED failure
     \/ /\ failure' = "sqlite"
        /\ Return(ErrorSummary("sqlite", clock))
        /\ UNCHANGED <<fts, meta>>
  /\ NoSearch
  /\ UNCHANGED supplied
  /\ UNCHANGED <<vec, items, start_time, refreshes, seen, collectorFailed,
                 expected, embedAttempts, inserted>>

\* the caller has the summary (main prints it and the process ends); the next
\* refresh starts from the persisted stores alone
RefreshReturned ==
  /\ rpc = "returned"
  /\ rpc' = "idle"
  /\ items' = <<>>
  /\ summary' = NoSummary
  /\ seen' = 0
  /\ failure' = "none"
  /\ collectorFailed' = FALSE
  /\ expected' = <<>>
  /\ embedAttempts' = 0
  /\ inserted' = {}
  /\ NoSearch
  /\ UNCHANGED supplied
  /\ UNCHANGED <<stores, clock, start_time, refreshes, anyFailed>>

(* ------------------------ VectorSearchEngine.search ------------------- *)
\* queries and limits a caller passes
Queries == {"a"}
Limits == {1, 2}
\* filters: the empty set stands for None and for [], which the code treats alike
ContentTypeFilters == {{}}
SourceFilters == {{}}

\* the terms the FTS5 tokenizer (unicode61: lower case, split at every
\* character that is neither a letter nor a digit) finds in a stored text
TokenTable ==
  "" :> {}
    @@ "\n" :> {}
    @@ "a" :> {"a"}
    @@ "a\n" :> {"a"}
    @@ "b\n" :> {"b"}
    @@ "t" :> {"t"}
    @@ "m" :> {"m"}
    @@ "note" :> {"note"}
    @@ "Infisical Project: t" :> {"infisical", "project", "t"}
    @@ "Container: t" :> {"container", "t"}
    @@ "Project: t\nEnvironments: " :> {"project", "t", "environments"}
    @@ "Project: t\nEnvironments: a" :> {"project", "t", "environments", "a"}
    @@ "Image: a" :> {"image", "a"}
    @@ "repository" :> {"repository"}
    @@ "code" :> {"code"}
    @@ "secret_metadata" :> {"secret", "metadata"}
    @@ "config" :> {"config"}
    @@ "github_mcp" :> {"github", "mcp"}
    @@ "filesystem_mcp" :> {"filesystem", "mcp"}
    @@ "infisical_mcp" :> {"infisical", "mcp"}
    @@ "docker_mcp" :> {"docker", "mcp"}
    @@ "topic" :> {"topic"}
    @@ "py" :> {"py"}
    @@ "secrets,infisical" :> {"secrets", "infisical"}
    @@ "docker,container" :> {"docker", "container"}
    @@ "github_repo" :> {"github", "repo"}
    @@ "filesystem" :> {"filesystem"}
    @@ "infisical_project" :> {"infisical", "project"}
    @@ "docker_container" :> {"docker", "container"}

Tokens(s) == TokenTable[s]

\* the terms of each column of a knowledge_fts row, in column order
ColumnTokens(row) ==
  <<Tokens(row.id[1]) \cup {ToString(row.id[2])}, Tokens(row.title), Tokens(row.content),
    Tokens(row.content_type), Tokens(row.source), Tokens(row.tags),
    Tokens(row.metadata[2])>>

\* the columns of a row a one-term query occurs in
MatchingColumns(row, q) ==
  LET columns == ColumnTokens(row) IN {c \in 1..7 : q \in columns[c]}

\* knowledge_fts MATCH ? with a one-term query: the term occurs in some column
FtsMatch(row, q) == MatchingColumns(row, q) # {}

\* the rank column in thousandths: negative, the better match the lower
\* (stand-in for bm25: one unit for each column the term occurs in)
FtsRank(row, q) == -1000 * Cardinality(MatchingColumns(row, q))

\* distance between the embeddings of the query and of a document, in
\* thousandths (stand-in for all-MiniLM-L6-v2 under ChromaDB's metric)
EmbeddingDistance(q, document) == IF q \in Tokens(document) THEN 400 ELSE 1300

\* position of an id in the collection's own order, which breaks distance ties
IdRank(id) ==
  CASE id[1] = "github_repo" -> id[2]
    [] id[1] = "filesystem" -> 3
    [] id[1] = "infisical_project" -> 4
    [] OTHER -> 5

Max(a, b) == IF a >= b THEN a ELSE b

\* score = max(0, 1 - distance), in thousandths
SemanticScore(distance) == Max(0, 1000 - distance)

\* score = max(0, -rank / 10.0), in thousandths
FulltextScore(rank) == Max(0, (0 - rank) \div 10)

\* a filter that looks at the content type alone
PassesFilterIgnoresSources(content_type, source, args) ==
  args.content_types # {} => content_type \in {EnumValue(ct) : ct \in args.content_types}

\* the where clause of collection.query and the WHERE conditions of the FTS
\* statement: value IN (...) for each filter that is given and not empty
PassesFilter(content_type, source, args) ==
  /\ (args.content_types # {}
        => content_type \in {EnumValue(ct) : ct \in args.content_types})
  /\ (args.sources # {} => source \in args.sources)

\* stable sort of records by ascending field k
RECURSIVE InsertByKey(_, _)
InsertByKey(sorted, x) ==
  IF sorted = <<>> THEN <<x>>
  ELSE IF x.k < Head(sorted).k THEN <<x>> \o sorted
  ELSE <<Head(sorted)>> \o InsertByKey(Tail(sorted), x)

RECURSIVE SortByKey(_)
SortByKey(xs) ==
  IF xs = <<>> THEN <<>>
  ELSE InsertByKey(SortByKey(SubSeq(xs, 1, Len(xs) - 1)), xs[Len(xs)])

Take(xs, n) == SubSeq(xs, 1, IF Len(xs) < n THEN Len(xs) ELSE n)

RECURSIVE SetToSeq(_)
SetToSeq(S) ==
  IF S = {} THEN <<>>
  ELSE LET x == CHOOSE y \in S : TRUE IN <<x>> \o SetToSeq(S \ {x})

\* ",".split of the stored tags, [] for an empty string
SplitTags(str) ==
  CASE str = "" -> <<>>
    [] str = "topic" -> <<"topic">>
    [] str = "py" -> <<"py">>
    [] str = "secrets,infisical" -> <<"secrets", "infisical">>
    [] str = "docker,container" -> <<"docker", "container">>

\* json.loads of the stored metadata
JsonLoads(str) == str[2]

\* _semantic_search: the n nearest stored records that pass the filter
SemanticSearch(store, args, n, now) ==
  LET hits == {i \in Ids : /\ store[i] # NoEntry
                           /\ PassesFilter(store[i].content_type, store[i].source, args)}
      keyed == SetToSeq({[k |-> EmbeddingDistance(args.query, store[i].document) * 10
                                  + IdRank(i),
                          id |-> i] : i \in hits})
      nearest == Take(SortByKey(keyed), n)
  IN  [j \in 1..Len(nearest) |->
         LET i == nearest[j].id
             distance == EmbeddingDistance(args.query, store[i].document)
         IN  [id |-> i, title |-> store[i].title, content |-> store[i].document,
              content_type |-> ContentType(store[i].content_type),
              source |-> store[i].source,
              metadata |-> EmptyDict, tags |-> SplitTags(store[i].tags),
              created_at |-> now, updated_at |-> now,
              score |-> SemanticScore(distance),
              context |-> [search_type |-> "semantic", raw |-> distance]]]

\* _fulltext_search: the n best-ranked rows that match and pass the filter
FulltextSearch(rows, args, n, now) ==
  LET hits == SelectSeq([j \in 1..Len(rows) |->
                           [k |-> FtsRank(rows[j], args.query), row |-> rows[j]]],
                        LAMBDA x : /\ FtsMatch(x.row, args.query)
                                   /\ PassesFilter(x.row.content_type, x.row.source, args))
      best == Take(SortByKey(hits), n)
  IN  [j \in 1..Len(best) |->
         LET row == best[j].row
             rank == best[j].k
         IN  [id |-> row.id, title |-> row.title, content |-> row.content,
              content_type |-> ContentType(row.content_type), source |-> row.source,
              metadata |-> JsonLoads(row.metadata), tags |-> SplitTags(row.tags),
              created_at |-> now, updated_at |-> now,
              score |-> FulltextScore(rank),
              context |-> [search_type |-> "fulltext", raw |-> rank]]]

\* a merge that keeps every result of both lists
DeduplicateKeepsAll(rs, seen_ids) == rs

\* the first result of each id, in order
RECURSIVE Deduplicate(_, _)
Deduplicate(rs, seen_ids) ==
  IF rs = <<>> THEN <<>>
  ELSE IF Head(rs).id \in seen_ids THEN Deduplicate(Tail(rs), seen_ids)
  ELSE <<Head(rs)>> \o Deduplicate(Tail(rs), seen_ids \cup {Head(rs).id})

\* results.sort(key=score, reverse=True): stable, descending
SortByScore(rs) ==
  LET keyed == [j \in 1..Len(rs) |-> [k |-> 0 - rs[j].score, r |-> rs[j]]]
      sorted == SortByKey(keyed)
  IN  [j \in 1..Len(sorted) |-> sorted[j].r]

\* a merge that cuts the list before it sorts it
MergeCutsFirst(semantic, fulltext, limit) ==
  SortByScore(Take(Deduplicate(semantic \o fulltext, {}), limit))

\* the merge of search: deduplicate, sort by score, cut at limit
Merge(semantic, fulltext, limit) ==
  Take(SortByScore(Deduplicate(semantic \o fulltext, {})), limit)

\* the except branch of _semantic_search: any failure of the encoder or of
\* the collection is logged and answered with no results
SemanticSearchCall(store, args, n, now, ok) ==
  IF ok THEN SemanticSearch(store, args, n, now) ELSE <<>>

\* the except branch of _fulltext_search: any failure of SQLite is logged and
\* answered with no results; an empty MATCH expression is such a failure
\* (fts5: syntax error)
FulltextSearchCall(rows, args, n, now, ok) ==
  IF ok /\ args.query # "" THEN FulltextSearch(rows, args, n, now) ELSE <<>>

\* VectorSearchEngine.search: both reads, the merge and the return (the
\* highlight of a result is left out of the record)
EngineSearch(store, rows, args, now, semantic_ok, fulltext_ok) ==
  Merge(SemanticSearchCall(store, args, args.limit * 2, now, semantic_ok),
        FulltextSearchCall(rows, args, args.limit * 2, now, fulltext_ok),
        args.limit)

\* search_knowledge_base converts the strings to members of ContentType; a
\* string that is no member is logged and left out
ConvertContentTypes(content_types) ==
  {ContentType(ct) : ct \in content_types \cap ContentTypeEnum}

\* the arguments the engine gets from search_knowledge_base
EngineArgs(call) == [call EXCEPT !.content_types = ConvertContentTypes(@)]

\* search_knowledge_base: the conversion, the engine's search and the returned
\* dictionary (its results are the engine's, field by field)
SearchKnowledgeBase(call, semantic_ok, fulltext_ok) ==
  /\ sargs' = call
  /\ results' = EngineSearch(vec, fts, EngineArgs(call), clock, semantic_ok, fulltext_ok)
  /\ response' = [status |-> "success", query |-> call.query,
                  total_results |-> Len(results')]
  /\ env' = [semantic_ok |-> semantic_ok, fulltext_ok |-> fulltext_ok]
  /\ stats' = NoStats
  /\ UNCHANGED <<stores, refreshVars>>

\* a search between the steps of a refresh, with both indexes answering
Search ==
  \E q \in Queries, l \in Limits, cts \in ContentTypeFilters, srcs \in SourceFilters :
    SearchKnowledgeBase([query |-> q, limit |-> l, content_types |-> cts,
                         sources |-> srcs, tags |-> {}], TRUE, TRUE)

(* ---------------------------- get_statistics -------------------------- *)
\* the sum of the values of a function to the naturals
RECURSIVE SumValues(_)
SumValues(f) ==
  IF DOMAIN f = {} THEN 0
  ELSE LET k == CHOOSE x \in DOMAIN f : TRUE
       IN  f[k] + SumValues([x \in DOMAIN f \ {k} |-> f[x]])

\* self.collection.count()
CollectionCount(store) == Cardinality({i \in Ids : store[i] # NoEntry})

\* the rows of knowledge_metadata
MetaRows(table) == {table[i] : i \in {j \in Ids : table[j] # NoEntry}}

\* dict of SELECT content_type, COUNT(*) FROM knowledge_metadata GROUP BY content_type
StatsByType(table) ==
  [t \in {row.content_type : row \in MetaRows(table)} |->
     Cardinality({i \in Ids : table[i] # NoEntry /\ table[i].content_type = t})]

\* dict of SELECT source, COUNT(*) FROM knowledge_metadata GROUP BY source
StatsBySource(table) ==
  [src \in {row.source : row \in MetaRows(table)} |->
     Cardinality({i \in Ids : table[i] # NoEntry /\ table[i].source = src})]

\* SELECT content_type, source, COUNT(*) ... GROUP BY content_type, source (the
\* rows as a set: the order among equal counts is SQLite's)
StatsByTypeSource(table) ==
  {[content_type |-> row.content_type, source |-> row.source,
    count |-> Cardinality({i \in Ids : /\ table[i] # NoEntry
                                        /\ table[i].content_type = row.content_type
                                        /\ table[i].source = row.source})] :
     row \in MetaRows(table)}

\* get_statistics: the dict it returns; a failure of the collection or of
\* SQLite is logged and answered with {"error": ...}
StatisticsDict(store, table, now, count_ok, sqlite_ok) ==
  IF count_ok /\ sqlite_ok
  THEN [total_items |-> CollectionCount(store),
        by_type |-> StatsByType(table),
        by_source |-> StatsBySource(table),
        by_type_source |-> StatsByTypeSource(table),
        last_updated |-> IsoFormat(now)]
  ELSE [error |-> "Exception"]

\* a get_statistics that empties knowledge_metadata
GetStatisticsClearsMeta(count_ok, sqlite_ok) ==
  /\ stats' = StatisticsDict(vec, meta, clock, count_ok, sqlite_ok)
  /\ sargs' = NoArgs
  /\ results' = <<>>
  /\ response' = NoResponse
  /\ env' = NoEnv
  /\ meta' = [i \in Ids |-> NoEntry]
  /\ UNCHANGED <<vec, fts, refreshVars>>

\* one call of get_statistics (main, --stats)
GetStatistics(count_ok, sqlite_ok) ==
  /\ stats' = StatisticsDict(vec, meta, clock, count_ok, sqlite_ok)
  /\ sargs' = NoArgs
  /\ results' = <<>>
  /\ response' = NoResponse
  /\ env' = NoEnv
  /\ UNCHANGED <<stores, refreshVars>>

Statistics == \E count_ok \in BOOLEAN, sqlite_ok \in BOOLEAN : GetStatistics(count_ok, sqlite_ok)

Next ==
  \/ RefreshStart
  \/ CollectGithub
  \/ CollectFilesystem
  \/ CollectInfisical
  \/ CollectDocker
  \/ RefreshNothing
  \/ AddItemsEncode
  \/ AddItemsChroma
  \/ AddItemsSqlite
  \/ RefreshReturned
  \/ Search
  \/ Statistics

Spec == Init /\ [][Next]_vars

(* ------------------ searches over a persisted knowledge base ---------- *)
\* A search reads the stores and changes nothing, so what it returns is a
\* function of the persisted stores, of its arguments and of what the two
\* indexes do.  SearchSpec starts from the stores two refreshes leave behind
\* and runs one search with arguments drawn from the sets below.
SearchQueries == {"a", "t", "m", ""}
\* "bogus" is no member of ContentType
SearchContentTypes == {{}, {"repository"}, {"bogus"}}
SearchSources == {{}, {"github_mcp", "docker_mcp"}}
SearchTags == {{}, {"docker"}}

SearchCalls ==
  [query : SearchQueries, limit : Limits, content_types : SearchContentTypes,
   sources : SearchSources, tags : SearchTags]

SourceIndex(src) == CHOOSE i \in 1..Len(Sources) : Sources[i] = src

\* the items the collectors can build at time now
CollectableItems(now) ==
  UNION {{Normalize(Sources[i], r, now) :
            r \in {x \in RawRecords(Sources[i]) : ~RaisesKeyError(Sources[i], x)}} :
         i \in 1..Len(Sources)}

\* the lists of at most n items collect_all_data can hand to an add_items
\* that writes them: source after source, no id twice
Batches(now, n) ==
  {b \in SeqsUpTo(CollectableItems(now), n) :
     /\ ~HasDuplicateIds(b)
     /\ \A j \in 1..(Len(b) - 1) : SourceIndex(b[j].source) <= SourceIndex(b[j + 1].source)}

FirstBatches == Batches(1, MaxRecords)
SecondBatches == Batches(2, 1)

\* the first refresh wrote its batch to all three stores; the second wrote its
\* batch to all three, or to the collection alone (its transaction failed)
InitSearch ==
  /\ \E first \in FirstBatches, second \in SecondBatches, committed \in BOOLEAN :
       LET empty == [i \in Ids |-> NoEntry]
           written == IF committed THEN second ELSE <<>>
       IN  /\ vec = CollectionAdd(CollectionAdd(empty, first), second)
           /\ fts = FtsInsert(FtsInsert(<<>>, first), written)
           /\ meta = MetaInsert(MetaInsert(empty, first), written)
           /\ anyFailed = ~committed
           /\ supplied = Supplied(Supplied([i \in Ids |-> {}], first), second)
  /\ clock = 2
  /\ rpc = "idle"
  /\ items = <<>>
  /\ start_time = 2
  /\ summary = NoSummary
  /\ refreshes = 2
  /\ seen = 0
  /\ failure = "none"
  /\ collectorFailed = FALSE
  /\ expected = <<>>
  /\ embedAttempts = 0
  /\ inserted = {}
  /\ sargs = NoArgs
  /\ results = <<>>
  /\ response = NoResponse
  /\ env = NoEnv
  /\ stats = NoStats

\* one search of the persisted knowledge base; either index may fail
SearchPersisted ==
  /\ sargs = NoArgs
  /\ stats = NoStats
  /\ \E call \in SearchCalls, semantic_ok \in BOOLEAN, fulltext_ok \in BOOLEAN :
       SearchKnowledgeBase(call, semantic_ok, fulltext_ok)

\* one get_statistics over the persisted knowledge base
StatisticsPersisted ==
  /\ sargs = NoArgs
  /\ stats = NoStats
  /\ Statistics

NextSearch ==
  \/ SearchPersisted
  \/ StatisticsPersisted

SearchSpec == InitSearch /\ [][NextSearch]_vars

(* --------------------------- the two scores --------------------------- *)
\* The distance ChromaDB reports and the rank FTS5 reports are the libraries'
\* numbers: a squared L2 distance between unit vectors lies in [0, 4], a bm25
\* rank is any number below zero (the more and the rarer the matched terms,
\* the lower).  ScoreSpec draws both, in thousandths, and lets each path
\* score its result.
MaxSteps == 20
Distances == {200 * k : k \in 0..MaxSteps}
Ranks == {0 - 1000 * k : k \in 0..MaxSteps}

InitScore ==
  /\ Init!1 /\ Init!2 /\ Init!3 /\ Init!4 /\ Init!5 /\ Init!6 /\ Init!7 /\ Init!8
  /\ Init!9 /\ Init!10 /\ Init!11 /\ Init!12 /\ Init!13 /\ Init!14 /\ Init!15
  /\ Init!16 /\ Init!17 /\ Init!18 /\ Init!19 /\ Init!21 /\ Init!22
  /\ env \in [distance : Distances, rank : Ranks]

\* the SearchResult each path builds from what its index reported
ScoreResults ==
  /\ results = <<>>
  /\ results' = <<[score |-> SemanticScore(env.distance),
                   context |-> [search_type |-> "semantic", raw |-> env.distance]],
                  [score |-> FulltextScore(env.rank),
                   context |-> [search_type |-> "fulltext", raw |-> env.rank]]>>
  /\ UNCHANGED <<stores, refreshVars, sargs, response, env, stats>>

NextScore == ScoreResults

ScoreSpec == InitScore /\ [][NextScore]_vars

(* ------------------------- _generate_highlight ------------------------ *)
\* The highlight is a function of a content and a query.  Strings are
\* sequences of characters in this part, so that positions, slices and
\* substitutions are what they are in the code.  HighlightSpec draws a content
\* and a query and lets _generate_highlight run.
MaxContent == 3
MaxQuery == 4
\* queries run against the long contents
MaxLongQuery == 2
ContentChars == {"a", "A", "b"}
QueryChars == {"a", "A", "b", " ", "."}

WindowBefore == 100
WindowAfter == 200
PrefixLength == 200
Ellipsis == <<".", ".", ".">>
\* best_pos is <<p>> for a position p, and Infinity while none is found
Infinity == <<>>

\* str.lower and str.upper, character by character
Lower(c) == CASE c = "A" -> "a" [] c = "B" -> "b" [] OTHER -> c
Upper(c) == CASE c = "a" -> "A" [] c = "b" -> "B" [] OTHER -> c
LowerStr(s) == [i \in 1..Len(s) |-> Lower(s[i])]
UpperStr(s) == [i \in 1..Len(s) |-> Upper(s[i])]

\* str.split(): the maximal runs of characters that are not blank
RECURSIVE SplitWords(_, _)
SplitWords(s, current) ==
  LET done == IF current = <<>> THEN <<>> ELSE <<current>>
  IN  IF s = <<>> THEN done
      ELSE IF Head(s) = " " THEN done \o SplitWords(Tail(s), <<>>)
      ELSE SplitWords(Tail(s), Append(current, Head(s)))

Split(s) == SplitWords(s, <<>>)

\* s[start:end] for 0 <= start <= end <= len(s)
Slice(s, start, end) == SubSeq(s, start + 1, end)

\* does needle stand at position p (counted from 0) of hay
OccursAt(hay, needle, p) ==
  p + Len(needle) <= Len(hay) /\ Slice(hay, p, p + Len(needle)) = needle

\* str.find: the lowest position of needle in hay, -1 if there is none
Find(hay, needle) ==
  LET positions == {p \in 0..Len(hay) : OccursAt(hay, needle, p)}
  IN  IF positions = {} THEN -1
      ELSE CHOOSE p \in positions : \A q \in positions : p <= q

\* the loop over words that keeps the lowest position found
RECURSIVE BestPos(_, _, _)
BestPos(words, content_lower, best_pos) ==
  IF words = <<>> THEN best_pos
  ELSE LET pos == Find(content_lower, Head(words))
       IN  BestPos(Tail(words), content_lower,
                   IF pos # -1 /\ (best_pos = Infinity \/ pos < best_pos[1])
                   THEN <<pos>> ELSE best_pos)

\* the positions (from 0) at which word matches s, ignoring case
AllMatches(s_lower, word_lower) ==
  {p \in 0..(Len(s_lower) - Len(word_lower)) : OccursAt(s_lower, word_lower, p)}

SetMin(S) == CHOOSE x \in S : \A y \in S : x <= y
SetMax(S) == CHOOSE x \in S : \A y \in S : x >= y

\* the least k with 2^k >= n
RECURSIVE Levels(_)
Levels(n) == IF n <= 1 THEN 0 ELSE 1 + Levels((n + 1) \div 2)

\* The scan of re.sub goes from the left and takes a match only where the
\* match taken before it has ended.  TakenFrom gives the starts of the first
\* 2^k matches the scan takes from position p on (by halves, so that the
\* depth of the definition is k and not the number of matches).
RECURSIVE TakenFrom(_, _, _, _)
RECURSIVE TakenAfter(_, _, _, _)
TakenFrom(matches, n, p, k) ==
  IF k = 0
  THEN (IF {m \in matches : m >= p} = {} THEN {}
        ELSE {SetMin({m \in matches : m >= p})})
  ELSE TakenAfter(matches, n, TakenFrom(matches, n, p, k - 1), k - 1)

TakenAfter(matches, n, first, k) ==
  IF first = {} THEN {}
  ELSE first \cup TakenFrom(matches, n, SetMax(first) + n, k)

\* the starts of all the matches of a word of length n the scan takes
Taken(matches, n) == TakenFrom(matches, n, 0, Levels(Cardinality(matches)))

\* pieces[lo] \o ... \o pieces[hi], by halves
RECURSIVE Flatten(_, _, _)
Flatten(pieces, lo, hi) ==
  IF lo > hi THEN <<>>
  ELSE IF lo = hi THEN pieces[lo]
  ELSE Flatten(pieces, lo, (lo + hi) \div 2) \o Flatten(pieces, (lo + hi) \div 2 + 1, hi)

\* what the substitution leaves of s, position by position: the replacement
\* where a taken match starts, nothing inside a taken match, the character
\* elsewhere
SubTaken(s, n, replacement, taken) ==
  Flatten([p \in 0..(Len(s) - 1) |->
             IF p \in taken THEN replacement
             ELSE IF \E t \in taken : t < p /\ p < t + n THEN <<>>
             ELSE <<s[p + 1]>>],
          0, Len(s) - 1)

\* re.compile(re.escape(word), re.IGNORECASE).sub(replacement, s): from the
\* left, every match that does not overlap an earlier one
Sub(word, replacement, s) ==
  SubTaken(s, Len(word), replacement,
           Taken(AllMatches(LowerStr(s), LowerStr(word)), Len(word)))

\* the loop that marks each word in turn, in the text the earlier turns left
RECURSIVE HighlightWords(_, _)
HighlightWords(words, snippet) ==
  IF words = <<>> THEN snippet
  ELSE HighlightWords(Tail(words),
                      Sub(Head(words),
                          <<"*", "*">> \o UpperStr(Head(words)) \o <<"*", "*">>,
                          snippet))

\* start = max(0, best_pos - 100)
WindowStart(best_pos) == Max(0, best_pos - WindowBefore)

\* a window that runs to the end of the content
WindowEndUncut(content, best_pos) == Len(content)

\* end = min(len(content), best_pos + 200)
WindowEnd(content, best_pos) ==
  IF Len(content) <= best_pos + WindowAfter THEN Len(content) ELSE best_pos + WindowAfter

GenerateHighlight(content, query) ==
  LET words == Split(LowerStr(query))
      content_lower == LowerStr(content)
      found == BestPos(words, content_lower, Infinity)
      best_pos == found[1]
  IN  IF found = Infinity
      THEN (IF Len(content) > PrefixLength
            THEN Slice(content, 0, PrefixLength) \o Ellipsis
            ELSE content)
      ELSE LET start == WindowStart(best_pos)
               end == WindowEnd(content, best_pos)
               snippet == (IF start > 0 THEN Ellipsis ELSE <<>>)
                            \o Slice(content, start, end)
                            \o (IF end < Len(content) THEN Ellipsis ELSE <<>>)
           IN  HighlightWords(words, snippet)

Rep(c, n) == [i \in 1..n |-> c]

\* contents around the lengths at which the code cuts: a match with exactly
\* the window before or after it, or with one character more, and contents
\* without a match of the length of the prefix and of one character more
LongContents ==
  {Rep("b", n) \o <<core>> \o Rep("b", m) :
     n \in {0, WindowBefore, WindowBefore + 1},
     m \in {0, WindowAfter - 1, WindowAfter},
     core \in {"a", "A"}}
    \cup {Rep("b", PrefixLength), Rep("b", PrefixLength + 1)}

InitHighlight ==
  /\ Init!1 /\ Init!2 /\ Init!3 /\ Init!4 /\ Init!5 /\ Init!6 /\ Init!7 /\ Init!8
  /\ Init!9 /\ Init!10 /\ Init!11 /\ Init!12 /\ Init!13 /\ Init!14 /\ Init!15
  /\ Init!16 /\ Init!17 /\ Init!18 /\ Init!19 /\ Init!21 /\ Init!22
  /\ env \in [content : SeqsUpTo(ContentChars, MaxContent),
              query : SeqsUpTo(QueryChars, MaxQuery)]
               \cup [content : LongContents,
                     query : SeqsUpTo(QueryChars, MaxLongQuery)]

\* the highlight of one result
Highlight ==
  /\ results = <<>>
  /\ results' = <<[highlight |-> GenerateHighlight(env.content, env.query)]>>
  /\ UNCHANGED <<stores, refreshVars, sargs, response, env, stats>>

NextHighlight == Highlight

HighlightSpec == InitHighlight /\ [][NextHighlight]_vars

(* ------------------------------ item ids ------------------------------ *)
\* The id of a commit, a container or an image is a prefix and the first
\* characters of the entity's own id.  Own ids are sequences of characters
\* here.  IdSpec draws two entities and lets the collectors build their ids.
MaxTail == 2
ShaPrefix == 8
DockerPrefix == 12
KeyChars == {"a", "b"}
\* own ids around the lengths at which the code cuts
NaturalKeys ==
  {Rep("a", n) \o tail : n \in {0, ShaPrefix - 1, ShaPrefix, DockerPrefix - 1, DockerPrefix},
                         tail \in SeqsUpTo(KeyChars, MaxTail)}
EntityKinds == {"github_commit", "docker_container", "docker_image"}

\* f"github_commit_{commit['sha'][:8]}", f"docker_container_{container['id'][:12]}",
\* f"docker_image_{image['id'][:12]}": the prefix, then the characters kept
ItemId(kind, key) ==
  CASE kind = "github_commit" -> <<"github_commit_">> \o Take(key, ShaPrefix)
    [] kind = "docker_container" -> <<"docker_container_">> \o Take(key, DockerPrefix)
    [] OTHER -> <<"docker_image_">> \o Take(key, DockerPrefix)

InitId ==
  /\ Init!1 /\ Init!2 /\ Init!3 /\ Init!4 /\ Init!5 /\ Init!6 /\ Init!7 /\ Init!8
  /\ Init!9 /\ Init!10 /\ Init!11 /\ Init!12 /\ Init!13 /\ Init!14 /\ Init!15
  /\ Init!16 /\ Init!17 /\ Init!18 /\ Init!19 /\ Init!21 /\ Init!22
  /\ env \in [first : [kind : EntityKinds, key : NaturalKeys],
              second : [kind : EntityKinds, key : NaturalKeys]]

\* the two items one refresh collects for the two entities
CollectEntities ==
  /\ results = <<>>
  /\ results' = <<[id |-> ItemId(env.first.kind, env.first.key)],
                  [id |-> ItemId(env.second.kind, env.second.key)]>>
  /\ UNCHANGED <<stores, refreshVars, sargs, response, env, stats>>

NextId == CollectEntities

IdSpec == InitId /\ [][NextId]_vars

(* ------------------------------ properties ---------------------------- *)
InVec(i) == vec[i] # NoEntry
InMeta(i) == meta[i] # NoEntry
FtsRowsOf(i) == SelectSeq(fts, LAMBDA row : row.id = i)
InFts(i) == FtsRowsOf(i) # <<>>
\* the row of an id that was written last
LatestFtsRow(i) == FtsRowsOf(i)[Len(FtsRowsOf(i))]
\* no refresh runs, and every refresh so far returned without an error
AllRefreshesCompleted == rpc \in {"idle", "returned"} /\ ~anyFailed
HasField(r, f) == f \in DOMAIN r

\* C1: after any sequence of completed refreshes, for every id the vector
\* index and the lexical index hold the same content, content_type and source.
C1_IndexesAgree ==
  AllRefreshesCompleted =>
    \A i \in Ids :
      InVec(i) /\ InFts(i) =>
        /\ LatestFtsRow(i).content = vec[i].document
        /\ LatestFtsRow(i).content_type = vec[i].content_type
        /\ LatestFtsRow(i).source = vec[i].source

\* C2: ingesting the same raw record twice leaves exactly one entry for its id
\* in each store; here: the full-text table never holds the same row twice, and
\* the other two stores hold at most one entry for an id by construction.
C2_OneEntryPerRecord ==
  \A j, k \in 1..Len(fts) : j # k => fts[j] # fts[k]

\* C3: when an id that is already indexed is ingested again, its stored
\* created_at is unchanged (and its updated_at is the time of the re-ingestion).
C3_CreatedAtKept ==
  [][\A i \in Ids :
       InMeta(i) =>
         /\ meta'[i].created_at = meta[i].created_at
         /\ (meta'[i] # meta[i] => meta'[i].updated_at = IsoFormat(clock))]_vars

\* C4: upsert is last-writer-wins: after a refresh that completed, both indexes
\* hold, for every id of the batch, the content of that batch.
C4_LastWriterWins ==
  (rpc = "returned" /\ ~anyFailed /\ summary.status = "success") =>
    \A k \in 1..Len(items) :
      /\ InVec(items[k].id) /\ vec[items[k].id].document = items[k].content
      /\ InFts(items[k].id) /\ LatestFtsRow(items[k].id).content = items[k].content

\* C5: when the write of a batch to one index succeeded and the write to the
\* other failed, the items it added are in neither index when refresh returns.
C5_NoPartialWrite ==
  (rpc = "returned" /\ failure = "sqlite") =>
    \A i \in inserted : ~InVec(i) /\ ~InFts(i)

\* C6: a search that runs while a refresh is running never returns an item
\* that is at that moment in only one of the two indexes.
C6_NoPartialItemSeen ==
  (rpc # "idle" /\ ~anyFailed) =>
    \A j \in 1..Len(results) : InVec(results[j].id) <=> InFts(results[j].id)

\* C7: when a source's call failed and another source yielded items, those
\* items are indexed and the summary has items_failed > 0 and
\* items_collected > 0.
C7_FailureCounted ==
  (rpc = "returned" /\ collectorFailed /\ items # <<>> /\ failure = "none") =>
    /\ \A k \in 1..Len(items) : InVec(items[k].id) /\ InFts(items[k].id)
    /\ HasField(summary, "items_collected") /\ summary.items_collected > 0
    /\ HasField(summary, "items_failed") /\ summary.items_failed > 0

\* C8: refresh never ends in an error outcome: it returns a summary of counts
\* and duration, with a zero count when nothing was collected.
C8_AlwaysSummary ==
  rpc = "returned" =>
    /\ summary.status = "success"
    /\ HasField(summary, "items_collected") /\ HasField(summary, "execution_time")
    /\ (items = <<>> => summary.items_collected = 0)

\* C9: a raw record that lacks title or content is the only one skipped: the
\* items collected are those of the well-formed records, in order.
C9_OnlyMalformedSkipped ==
  rpc = "collected" => [k \in 1..Len(items) |-> items[k].id] = expected

\* C10: when the embedding provider is unavailable for a batch, the embedding
\* is tried again at least once before the batch is given up.
C10_EmbeddingRetried ==
  (rpc = "returned" /\ failure = "embed") => embedAttempts > 1


\* the search the last step ran, if it ran one
Searched == sargs # NoArgs
ResultIds == {results[j].id : j \in 1..Len(results)}

\* C11: for every query and every state of the indexes, an id stored more than
\* once in the full-text table included, no id appears more than once in the
\* list a search returns.
C11_NoIdTwice ==
  \A j, k \in 1..Len(results) : j < k => results[j].id # results[k].id

\* a returned id that the collection holds and the full-text table holds
\* twice, both rows matching the query, with both indexes answering
C11_Witness ==
  /\ Searched
  /\ env.semantic_ok /\ env.fulltext_ok
  /\ sargs.content_types = {} /\ sargs.sources = {}
  /\ sargs.query # ""
  /\ sargs.limit = 2
  /\ \E i \in ResultIds :
       /\ InVec(i)
       /\ Len(SelectSeq(FtsRowsOf(i), LAMBDA row : FtsMatch(row, sargs.query))) >= 2


\* C12: every returned result has a fused score between 0 and 1, whichever
\* path produced it (scores are in thousandths here).
C12_ScoreInUnitInterval ==
  \A j \in 1..Len(results) : 0 <= results[j].score /\ results[j].score <= 1000

\* when an item was last updated: updated_at of its knowledge_metadata row
\* (the updated_at of a returned item is the time of the search itself)
UpdatedAt(i) == meta[i].updated_at[2]

\* C13: the returned list is ordered by fused score, non-increasing, and among
\* results of equal score the item updated more recently comes first.
C13_ScoreThenRecency ==
  \A j, k \in 1..Len(results) :
    j < k =>
      /\ results[j].score >= results[k].score
      /\ (/\ results[j].score = results[k].score
          /\ InMeta(results[j].id) /\ InMeta(results[k].id))
           => UpdatedAt(results[j].id) >= UpdatedAt(results[k].id)

\* the merged, deduplicated candidates of the search the last step ran: what
\* the two paths found in the stores as they are (a search changes no store)
Candidates ==
  LET args == EngineArgs(sargs)
  IN  Deduplicate(
        SemanticSearchCall(vec, args, args.limit * 2, clock, env.semantic_ok)
          \o FulltextSearchCall(fts, args, args.limit * 2, clock, env.fulltext_ok),
        {})

Min(a, b) == IF a <= b THEN a ELSE b

\* C14: a search returns at most limit results, and they are the limit
\* highest-scored of its merged, deduplicated candidates: no candidate left
\* out has a strictly higher score than a returned one.
C14_TopLimit ==
  Searched =>
    LET cands == Candidates
    IN  /\ Len(results) = Min(sargs.limit, Len(cands))
        /\ \A j \in 1..Len(results) : \E c \in 1..Len(cands) : cands[c] = results[j]
        /\ \A c \in 1..Len(cands) :
             cands[c].id \notin ResultIds =>
               \A j \in 1..Len(results) : cands[c].score <= results[j].score

\* more candidates than limit, and a returned candidate that stood behind a
\* candidate of strictly lower score which was left out
C14_Witness ==
  /\ Searched
  /\ LET cands == Candidates
     IN  /\ Len(cands) > sargs.limit
         /\ \E c, d \in 1..Len(cands) :
              /\ c < d
              /\ cands[c].id \notin ResultIds
              /\ cands[d].id \in ResultIds
              /\ cands[c].score < cands[d].score

\* C15: a search with an empty query returns an empty list (no error, not
\* every item) and asks neither index.
C15_EmptyQueryEmptyList ==
  (Searched /\ sargs.query = "") => results = <<>>

MatchingIds(q) == {fts[j].id : j \in {k \in 1..Len(fts) : FtsMatch(fts[k], q)}}

\* C16: with a content-type filter, a source filter or both, every returned
\* result satisfies all the given filters, whichever path found it; with no
\* filter no item is left out for its content type or source (every stored
\* item is returned when the limit has room for all).  The filter is the one
\* the engine's search is called with.
C16_FiltersRespected ==
  Searched =>
    LET args == EngineArgs(sargs)
        unfiltered == args.content_types = {} /\ args.sources = {}
    IN  /\ \A j \in 1..Len(results) :
             /\ args.content_types # {} => results[j].content_type \in args.content_types
             /\ args.sources # {} => results[j].source \in args.sources
        /\ (/\ unfiltered /\ env.semantic_ok
            /\ Cardinality({i \in Ids : InVec(i)}) <= args.limit)
             => {i \in Ids : InVec(i)} \subseteq ResultIds
        /\ (/\ unfiltered /\ ~env.semantic_ok /\ env.fulltext_ok /\ args.query # ""
            /\ Len(SelectSeq(fts, LAMBDA row : FtsMatch(row, args.query))) <= args.limit)
             => MatchingIds(args.query) \subseteq ResultIds

\* both filters given and both indexes answering: something is returned while
\* the collection and the full-text table hold a matching item of a listed
\* source whose content type is not listed
C16_Witness ==
  /\ Searched
  /\ env.semantic_ok /\ env.fulltext_ok
  /\ LET args == EngineArgs(sargs)
     IN  /\ args.content_types # {} /\ args.sources # {}
         /\ results # <<>>
         /\ \E i \in MatchingIds(args.query) :
              /\ InVec(i)
              /\ vec[i].source \in args.sources
              /\ ContentType(vec[i].content_type) \notin args.content_types

\* C17: the tags filter is applied to the merged results: with a tags filter
\* every returned result carries at least one of the requested tags.
C17_TagsFilterApplied ==
  (Searched /\ sargs.tags # {}) =>
    \A j \in 1..Len(results) :
      \E t \in 1..Len(results[j].tags) : results[j].tags[t] \in sargs.tags

\* C18: a search whose content-type filter holds a value outside the
\* enumeration is rejected with a validation error and returns no results.
C18_InvalidFilterRejected ==
  (Searched /\ sargs.content_types \ ContentTypeEnum # {}) =>
    response.status = "error" /\ results = <<>>

\* C19: when both index queries fail, the search reports an error instead of
\* a successful empty list.
C19_BothFailedIsError ==
  (Searched /\ ~env.semantic_ok /\ ~env.fulltext_ok) => response.status = "error"

\* a highlight was generated for env.content and env.query
Highlighted == results # <<>> /\ HasField(results[1], "highlight")
Contains(hay, needle) == Find(hay, needle) # -1

\* C20: whenever a query term occurs in the content (case-insensitively), the
\* highlight contains, case-insensitively, a term found at the earliest match
\* position; for every query, terms that overlap or contain one another
\* included.
C20_HighlightHasEarliestTerm ==
  Highlighted =>
    LET words == Split(LowerStr(env.query))
        content_lower == LowerStr(env.content)
        earliest == BestPos(words, content_lower, Infinity)
    IN  earliest # Infinity =>
          \E w \in 1..Len(words) :
            /\ Find(content_lower, words[w]) = earliest[1]
            /\ Contains(LowerStr(results[1].highlight), words[w])

\* the highlight without its markers, in lower case
Unmarked(highlight) == LowerStr(SelectSeq(highlight, LAMBDA c : c # "*"))

\* C21: the content excerpt inside a highlight stays inside the documented
\* window.  With a match at the earliest position e it is content[s:t] with
\* e - s <= 100 and t - e <= 200; without a match it is a prefix of at most
\* 200 characters; an ellipsis stands at exactly the sides where content was
\* cut.  The highlight is compared without its markers and in lower case.
C21_WindowBounded ==
  Highlighted =>
    LET content_lower == LowerStr(env.content)
        n == Len(content_lower)
        found == BestPos(Split(LowerStr(env.query)), content_lower, Infinity)
        h == Unmarked(results[1].highlight)
    IN  IF found = Infinity
        THEN \E k \in 0..Min(200, n) :
               /\ Len(h) = k + (IF k < n THEN 3 ELSE 0)
               /\ h = Slice(content_lower, 0, k) \o (IF k < n THEN Ellipsis ELSE <<>>)
        ELSE \E before \in 0..Min(100, found[1]), after \in 0..Min(200, n - found[1]) :
               LET s == found[1] - before
                   t == found[1] + after
               IN  /\ Len(h) = (IF s > 0 THEN 3 ELSE 0) + (t - s) + (IF t < n THEN 3 ELSE 0)
                   /\ h = (IF s > 0 THEN Ellipsis ELSE <<>>)
                            \o Slice(content_lower, s, t)
                            \o (IF t < n THEN Ellipsis ELSE <<>>)

\* a match with more than 100 characters before it and more than 200 from it:
\* the highlight is cut on both sides
C21_Witness ==
  /\ Highlighted
  /\ LET content_lower == LowerStr(env.content)
         found == BestPos(Split(LowerStr(env.query)), content_lower, Infinity)
     IN  /\ found # Infinity
         /\ found[1] > 100
         /\ Len(content_lower) > found[1] + 200
         /\ SubSeq(Unmarked(results[1].highlight), 1, 3) = Ellipsis

\* C22: round trip: for every item a search returns, on either path, the
\* content type and the source of the result are those supplied when that id
\* was ingested.
C22_TypeAndSourceRoundTrip ==
  Searched =>
    \A j \in 1..Len(results) :
      \E x \in supplied[results[j].id] :
        /\ results[j].content_type = x.content_type
        /\ results[j].source = x.source

\* a search in which both paths answered and that returned a result of the
\* full-text path
C22_Witness ==
  /\ Searched
  /\ env.semantic_ok = TRUE
  /\ env.fulltext_ok = TRUE
  /\ \E j \in 1..Len(results) :
       /\ results[j].context.search_type = "fulltext"
       /\ results[j].content_type = SECRET_METADATA
       /\ results[j].source = "infisical_mcp"

\* C23: the metadata of an item is returned with its results: for every
\* result, on either path, the metadata of the result is the metadata
\* supplied when that id was ingested.
C23_MetadataReturned ==
  Searched =>
    \A j \in 1..Len(results) :
      \E x \in supplied[results[j].id] : results[j].metadata = x.metadata

\* get_statistics has returned
StatisticsReturned == stats # NoStats

\* C24: in every result of get_statistics that carries the counts,
\* total_items is the number of ids in knowledge_metadata, the sum of the
\* counts by type, the sum of the counts by source and the count of the
\* vector store.
C24_TotalItemsConsistent ==
  (StatisticsReturned /\ HasField(stats, "total_items")) =>
    /\ stats.total_items = Cardinality({i \in Ids : InMeta(i)})
    /\ stats.total_items = SumValues(stats.by_type)
    /\ stats.total_items = SumValues(stats.by_source)
    /\ stats.total_items = Cardinality({i \in Ids : InVec(i)})

\* C25: frame: a step that runs a search or get_statistics, whether it answers
\* or fails, leaves the vector store, knowledge_fts and knowledge_metadata as
\* they were.
C25_ReadsChangeNoStore ==
  [][(Searched' \/ StatisticsReturned') => stores' = stores]_vars

\* a failed get_statistics over stores that hold items
C25_Witness ==
  /\ StatisticsReturned
  /\ HasField(stats, "error")
  /\ \E i \in Ids : InVec(i) /\ InFts(i) /\ InMeta(i)

\* what each path answered in the search that returned results
SemanticAnswer ==
  SemanticSearchCall(vec, EngineArgs(sargs), EngineArgs(sargs).limit * 2, clock,
                     env.semantic_ok)
FulltextAnswer ==
  FulltextSearchCall(fts, EngineArgs(sargs), EngineArgs(sargs).limit * 2, clock,
                     env.fulltext_ok)
\* the results of an answer that carry the id
OfId(answer, i) == {answer[j] : j \in {k \in 1..Len(answer) : answer[k].id = i}}
\* the retrieval paths a context names
PathsRecorded(context) ==
  IF HasField(context, "search_type") THEN {context.search_type} ELSE {}

\* C26: in the merge, an id both paths returned keeps the maximum of its two
\* scores and its context records both paths and their raw sub-scores; an id
\* only one path returned keeps that path's score and records that path.
C26_MergeKeepsMaximum ==
  Searched =>
    \A j \in 1..Len(results) :
      LET r == results[j]
          sem == OfId(SemanticAnswer, r.id)
          ft == OfId(FulltextAnswer, r.id)
      IN  /\ \A x \in sem \cup ft : x.score <= r.score
          /\ \E x \in sem \cup ft : x.score = r.score
          /\ (sem # {} /\ ft # {}) =>
               PathsRecorded(r.context) = {"semantic", "fulltext"}
          /\ (sem # {} /\ ft = {}) =>
               /\ PathsRecorded(r.context) = {"semantic"}
               /\ \E x \in sem : r.context.raw = x.context.raw
          /\ (sem = {} /\ ft # {}) =>
               /\ PathsRecorded(r.context) = {"fulltext"}
               /\ \E x \in ft : r.context.raw = x.context.raw

\* knowledge_fts with the metadata of every row emptied
WithoutMetadata(rows) ==
  [j \in 1..Len(rows) |-> [rows[j] EXCEPT !.metadata = JsonDumps("")]]

\* the column metadata of knowledge_fts, the seventh
MetadataColumn == 7

\* C28: metadata is not indexed: a search returns the ids it would return
\* were the metadata of every item empty, and a result of the full-text
\* path has the query term in a column other than metadata.
C28_MetadataNotSearched ==
  Searched =>
    LET args == EngineArgs(sargs)
        blind == EngineSearch(vec, WithoutMetadata(fts), args, clock,
                              env.semantic_ok, env.fulltext_ok)
    IN  /\ ResultIds = {blind[j].id : j \in 1..Len(blind)}
        /\ \A j \in 1..Len(results) :
             results[j].context.search_type = "fulltext" =>
               \E k \in 1..Len(fts) :
                 /\ fts[k].id = results[j].id
                 /\ MatchingColumns(fts[k], args.query) \ {MetadataColumn} # {}

\* C27: item ids are injective on the entities: two entities that differ in
\* their kind or in their own id (two commits of different SHA, two containers
\* or two images of different id) never get the same item id.
C27_IdsInjective ==
  (Len(results) = 2 /\ HasField(env, "first") /\ env.first # env.second) =>
    results[1].id # results[2].id

\* C29: nothing is deleted: over every step of a refresh, a search or a
\* get_statistics, an id that is in the vector store, in knowledge_fts or in
\* knowledge_metadata is still in it after the step.
C29_IdsOnlyGrow ==
  [][\A i \in Ids :
       /\ InVec(i) => vec'[i] # NoEntry
       /\ InFts(i) => \E k \in 1..Len(fts') : fts'[k].id = i
       /\ InMeta(i) => meta'[i] # NoEntry]_vars

\* a later refresh wrote its items and returned, and a row an earlier refresh
\* wrote is still in knowledge_metadata
C29_Witness ==
  /\ rpc = "returned"
  /\ summary.status = "success"
  /\ summary.items_collected > 0
  /\ \E i \in Ids : InVec(i) /\ InFts(i) /\ InMeta(i) /\ UpdatedAt(i) < start_time

\* C30: add_items writes the vector store before the SQLite tables, a failed
\* embedding or a failed collection.add leaves both tables as they were, and
\* so every id in knowledge_fts or knowledge_metadata is in the vector store.
C30_VectorBeforeLexical ==
  /\ [](\A i \in Ids : (InFts(i) \/ InMeta(i)) => InVec(i))
  /\ [][/\ (fts' # fts \/ meta' # meta) => \A i \in ItemIds(items) : InVec(i)
        /\ (/\ rpc # "returned"
            /\ rpc' = "returned"
            /\ summary'.status = "error"
            /\ summary'.error \in {"encode", "add"})
             => (fts' = fts /\ meta' = meta)]_vars

\* a refresh whose collection.add failed, over tables an earlier refresh filled
C30_Witness ==
  /\ rpc = "returned"
  /\ summary.status = "error"
  /\ summary.error = "add"
  /\ \E i \in Ids : InFts(i) /\ InMeta(i)

====
